---- MODULE Spec2Model ----
(***************************************************************************)
(* Connect Four (raymondkneipp/connect-four): the Board grid, the Game     *)
(* turn loop and win detection of src/game/board.rs and src/game/game.rs.  *)
(*                                                                         *)
(* A Player is identified by its token (a positive number); Player         *)
(* equality in the source is by value (name, token) and Game::new rejects  *)
(* duplicate tokens, so inside one game the token is the identity.         *)
(* A BoardCell is None (0) or Some(player) (the player's token).           *)
(* The board keeps the source's 0-based indices: board[i][j] is            *)
(* self.rows[i][j], row 0 being the top row.                               *)
(***************************************************************************)
EXTENDS Integers, Sequences, FiniteSets, TLC

VARIABLES
    pc,             \* position of the program: see the specifications below
    board,          \* Board.rows
    tokens_to_win,  \* Game.tokens_to_win
    players,        \* Game.players (sequence of tokens)
    current_turn,   \* Game.current_turn
    st,             \* the GameStatus last computed by Game::start
    cfg,            \* the arguments Game::new was called with
    input,          \* the last line read by get_valid_input
    last,           \* the last placement made: <<row, col, player>>
    placed,         \* number of placements made so far
    call,           \* the last API call made (board-level specifications)
    ret,            \* its return value
    arg_line,       \* the line handed to check_line
    next_token,     \* NEXT_TOKEN, the process-wide token counter
    main_game,      \* the Game of main.rs's inline module, run side by side
    threads,        \* the threads calling Player::new concurrently
    token_lock      \* the thread holding the Mutex of NEXT_TOKEN

vars == <<pc, board, tokens_to_win, players, current_turn, st, cfg, input,
          last, placed, call, ret, arg_line, next_token, main_game, threads,
          token_lock>>

\* the state of the programs that the specification at hand does not run
elsewhere == <<main_game, threads, token_lock>>

----------------------------------------------------------------------------
(* Bounds *)

MaxRows == 3
MaxCols == 3
MaxPlayers == 3

None == 0
NoValue == <<"none">>

Tokens == 1 .. MaxPlayers

\* the two players that occur on the boards and lines of the API-level
\* specifications
PureTokens == {1, 2}

Max(a, b) == IF a >= b THEN a ELSE b

----------------------------------------------------------------------------
(* Board *)

\* Board::new with its two arguments exchanged
Board_new_swapped(row_count, col_count) ==
    [i \in 0 .. col_count - 1 |-> [j \in 0 .. row_count - 1 |-> None]]

\* Board::new: row_count rows of col_count empty cells
Board_new(row_count, col_count) ==
    [i \in 0 .. row_count - 1 |-> [j \in 0 .. col_count - 1 |-> None]]

\* self.rows.len()
NRows(b) == Cardinality(DOMAIN b)

\* self.rows[0].len()
NCols(b) == Cardinality(DOMAIN b[0])

\* place_token stopping at the first empty cell it meets, scanning from the
\* top: the token stays in the highest empty row
RECURSIVE PlaceScanFirst(_, _, _, _)
PlaceScanFirst(b, col, i, target_row) ==
    IF i >= Cardinality(DOMAIN b) THEN target_row
    ELSE IF b[i][col] = None THEN i
    ELSE PlaceScanFirst(b, col, i + 1, target_row)

\* the loop of place_token: the last row index whose cell in col is empty,
\* starting from target_row = 0
RECURSIVE PlaceScan(_, _, _, _)
PlaceScan(b, col, i, target_row) ==
    IF i >= NRows(b) THEN target_row
    ELSE PlaceScan(b, col, i + 1, IF b[i][col] = None THEN i ELSE target_row)

\* place_token starting from the bottom row instead of row 0
TargetRowBottom(b, col) == PlaceScan(b, col, 0, Cardinality(DOMAIN b) - 1)

\* the row place_token writes to
TargetRow(b, col) == PlaceScan(b, col, 0, 0)

\* Board::place_token
place_token(b, col, player) ==
    [b EXCEPT ![TargetRow(b, col)][col] = player]

\* valid_move asking for a wholly empty column
valid_move_all(b, col) ==
    IF col >= Cardinality(DOMAIN b[0]) THEN FALSE
    ELSE \A i \in DOMAIN b : b[i][col] = None

\* valid_move testing the range of col only
valid_move_range_only(b, col) == col < Cardinality(DOMAIN b[0])

\* Board::valid_move
valid_move(b, col) ==
    IF col >= NCols(b) THEN FALSE
    ELSE \E i \in DOMAIN b : b[i][col] = None

\* is_board_full looking at the top row only
is_board_full_first_row(b) ==
    ~ \E j \in DOMAIN b[0] : b[0][j] = None

\* is_board_full answering true as soon as one row is full
is_board_full_any_row(b) ==
    \E i \in DOMAIN b : ~ \E j \in DOMAIN b[i] : b[i][j] = None

\* is_board_full never reporting a full board
is_board_full_never(b) == b # b

\* Board::is_board_full
is_board_full(b) ==
    \A i \in DOMAIN b : ~ \E j \in DOMAIN b[i] : b[i][j] = None

\* one diagonal of get_diagonals_top_left_to_bottom_right collected from the
\* bottom row upward
RECURSIVE DiagTLBRBottomUp(_, _, _)
DiagTLBRBottomUp(b, d, i) ==
    IF i >= Cardinality(DOMAIN b) THEN <<>>
    ELSE LET j == d - i
         IN  DiagTLBRBottomUp(b, d, i + 1)
             \o (IF j >= 0 /\ j < Cardinality(DOMAIN b[0]) THEN <<b[i][j]>> ELSE <<>>)

\* one diagonal of get_diagonals_top_left_to_bottom_right: the inner loop
\* over i for a given d, pushing rows[i][d - i] when 0 <= d - i < cols
RECURSIVE DiagTLBR(_, _, _)
DiagTLBR(b, d, i) ==
    IF i >= NRows(b) THEN <<>>
    ELSE LET j == d - i
         IN  (IF j >= 0 /\ j < NCols(b) THEN <<b[i][j]>> ELSE <<>>)
             \o DiagTLBR(b, d, i + 1)

\* one diagonal of get_diagonals_top_right_to_bottom_left:
\* j = (cols - 1) - (d - i)
RECURSIVE DiagTRBL(_, _, _)
DiagTRBL(b, d, i) ==
    IF i >= NRows(b) THEN <<>>
    ELSE LET j == (NCols(b) - 1) - (d - i)
         IN  (IF j >= 0 /\ j < NCols(b) THEN <<b[i][j]>> ELSE <<>>)
             \o DiagTRBL(b, d, i + 1)

\* the outer loop of get_diagonals_top_left_to_bottom_right stopping one
\* diagonal early
RECURSIVE DiagonalsTLBRShort(_, _)
DiagonalsTLBRShort(b, d) ==
    IF d >= NRows(b) + NCols(b) - 2 THEN <<>>
    ELSE LET diagonal == DiagTLBR(b, d, 0)
         IN  (IF diagonal # <<>> THEN <<diagonal>> ELSE <<>>)
             \o DiagonalsTLBRShort(b, d + 1)

\* the outer loop of get_diagonals_top_left_to_bottom_right: d from 0 to
\* rows + cols - 2, keeping the non-empty diagonals
RECURSIVE DiagonalsTLBRFrom(_, _)
DiagonalsTLBRFrom(b, d) ==
    IF d >= NRows(b) + NCols(b) - 1 THEN <<>>
    ELSE LET diagonal == DiagTLBR(b, d, 0)
         IN  (IF diagonal # <<>> THEN <<diagonal>> ELSE <<>>)
             \o DiagonalsTLBRFrom(b, d + 1)

get_diagonals_top_left_to_bottom_right(b) == DiagonalsTLBRFrom(b, 0)

RECURSIVE DiagonalsTRBLFrom(_, _)
DiagonalsTRBLFrom(b, d) ==
    IF d >= NRows(b) + NCols(b) - 1 THEN <<>>
    ELSE LET diagonal == DiagTRBL(b, d, 0)
         IN  (IF diagonal # <<>> THEN <<diagonal>> ELSE <<>>)
             \o DiagonalsTRBLFrom(b, d + 1)

get_diagonals_top_right_to_bottom_left(b) == DiagonalsTRBLFrom(b, 0)

----------------------------------------------------------------------------
(* Game: win detection *)

\* check_line keeping its count across an empty cell
RECURSIVE CheckScanNoReset(_, _, _, _, _)
CheckScanNoReset(line, k, i, count, last_player) ==
    IF i > Len(line) THEN None
    ELSE IF line[i] # None
         THEN IF line[i] = last_player
              THEN IF count + 1 = k THEN line[i]
                   ELSE CheckScanNoReset(line, k, i + 1, count + 1, last_player)
              ELSE CheckScanNoReset(line, k, i + 1, 1, line[i])
         ELSE CheckScanNoReset(line, k, i + 1, count, last_player)

\* the loop of check_line from cell i on, with the running count and
\* last_player
RECURSIVE CheckScan(_, _, _, _, _)
CheckScan(line, k, i, count, last_player) ==
    IF i > Len(line) THEN None
    ELSE IF line[i] # None
         THEN IF line[i] = last_player
              THEN IF count + 1 = k THEN line[i]
                   ELSE CheckScan(line, k, i + 1, count + 1, last_player)
              ELSE CheckScan(line, k, i + 1, 1, line[i])
         ELSE CheckScan(line, k, i + 1, 0, None)

\* Game::check_line
check_line(line, k) == CheckScan(line, k, 1, 0, None)

\* row i of the board as a line
RowLine(b, i) == [j \in 1 .. NCols(b) |-> b[i][j - 1]]

\* column col of the board as a line, top to bottom
ColLine(b, col) == [i \in 1 .. NRows(b) |-> b[i - 1][col]]

\* find_winner without its last loop, the top-right-to-bottom-left diagonals
ScanLinesNoTRBL(b) ==
    [i \in 1 .. NRows(b) |-> RowLine(b, i - 1)]
    \o [j \in 1 .. NCols(b) |-> ColLine(b, j - 1)]
    \o get_diagonals_top_left_to_bottom_right(b)

\* find_winner scanning the columns before the rows
ScanLinesColumnsFirst(b) ==
    [j \in 1 .. NCols(b) |-> ColLine(b, j - 1)]
    \o [i \in 1 .. NRows(b) |-> RowLine(b, i - 1)]
    \o get_diagonals_top_left_to_bottom_right(b)
    \o get_diagonals_top_right_to_bottom_left(b)

\* the lines find_winner scans, in its scan order
ScanLines(b) ==
    [i \in 1 .. NRows(b) |-> RowLine(b, i - 1)]
    \o [j \in 1 .. NCols(b) |-> ColLine(b, j - 1)]
    \o get_diagonals_top_left_to_bottom_right(b)
    \o get_diagonals_top_right_to_bottom_left(b)

\* the first line, from index n on, for which check_line returns a player
RECURSIVE FirstWinner(_, _, _)
FirstWinner(lines, k, n) ==
    IF n > Len(lines) THEN None
    ELSE LET winner == check_line(lines[n], k)
         IN  IF winner # None THEN winner ELSE FirstWinner(lines, k, n + 1)

\* Game::find_winner: the vector `lines` is built once, then scanned
find_winner(b, k) ==
    CHOOSE w \in {FirstWinner(lines, k, 1) : lines \in {ScanLines(b)}} : TRUE

\* status never reporting a winner: the game goes on until the board is full
status_no_win(b, k) ==
    IF is_board_full(b) THEN <<"Draw">> ELSE <<"Ongoing">>

\* Game::status
status(b, k) ==
    IF is_board_full(b) THEN <<"Draw">>
    ELSE LET winner == find_winner(b, k)
         IN  IF winner # None THEN <<"Win", winner>> ELSE <<"Ongoing">>

----------------------------------------------------------------------------
(* Player *)

\* 'a', the initial value of NEXT_TOKEN, and 'z', where it stops (as u8)
LetterA == 97
LetterZ == 122

\* the counter update of Player::new without the test against 'z'
AdvanceTokenNoStop(t) == t + 1

\* the counter update of Player::new: incremented while below 'z'
AdvanceToken(t) == IF t < LetterZ THEN t + 1 ELSE t

----------------------------------------------------------------------------
(* Game: construction *)

\* Game::validate_players: TRUE when no token is seen twice
validate_players(ps) ==
    \A i, j \in 1 .. Len(ps) : i # j => ps[i] # ps[j]

\* Game::validate_game_config: "Ok" or the error
validate_game_config(rows, cols, k) ==
    IF rows < 1 \/ cols < 1 THEN "RowsCols"
    ELSE IF k < 2 THEN "TokensToWinMin"
    ELSE IF k > rows \/ k > cols THEN "TokensToWinMax"
    ELSE "Ok"

\* Game::new without the check of players against the board size
Game_new_no_size_check(row_count, col_count, k, ps) ==
    IF Len(ps) < 2 THEN "FewPlayers"
    ELSE IF ~ validate_players(ps) THEN "DuplicateToken"
    ELSE validate_game_config(row_count, col_count, k)

\* Game::new: "Ok" or the panic raised
Game_new(row_count, col_count, k, ps) ==
    IF Len(ps) < 2 THEN "FewPlayers"
    ELSE IF ~ validate_players(ps) THEN "DuplicateToken"
    ELSE IF validate_game_config(row_count, col_count, k) # "Ok"
         THEN validate_game_config(row_count, col_count, k)
    ELSE IF Len(ps) * k > row_count * col_count THEN "TooManyPlayers"
    ELSE "Ok"

\* next_turn never wrapping to 0
next_turn_no_wrap(turn, ps) == IF turn + 1 >= Len(ps) THEN turn ELSE turn + 1

\* Game::next_turn
next_turn(turn, ps) == (turn + 1) % Len(ps)

----------------------------------------------------------------------------
(* The program: Game::new followed by Game::start *)

\* player lists handed to Game::new
RECURSIVE SeqsUpTo(_, _)
SeqsUpTo(S, n) ==
    IF n = 0 THEN {<<>>}
    ELSE LET prev == SeqsUpTo(S, n - 1)
         IN  prev \cup {Append(s, x) : s \in {t \in prev : Len(t) = n - 1}, x \in S}

PlayerLists == SeqsUpTo(Tokens, MaxPlayers)

\* lines read from standard input: a read error, text that is no
\* non-negative integer, or a column number
Inputs == {<<"err">>, <<"text">>} \cup {<<"int", n>> : n \in 0 .. MaxCols}

Init ==
    /\ pc = "new"
    /\ board = <<>>
    /\ tokens_to_win = 0
    /\ players = <<>>
    /\ current_turn = 0
    /\ st = NoValue
    /\ cfg = NoValue
    /\ input = NoValue
    /\ last = NoValue
    /\ placed = 0
    /\ call = NoValue
    /\ ret = NoValue
    /\ arg_line = <<>>
    /\ next_token = LetterA
    /\ main_game = NoValue /\ threads = NoValue /\ token_lock = NoValue

\* main: Game::new(rows, cols, tokens_to_win, players) panics or builds
New ==
    /\ pc = "new"
    /\ \E r \in 0 .. MaxRows, c \in 0 .. MaxCols,
          k \in 0 .. Max(MaxRows, MaxCols) + 1, ps \in PlayerLists :
         /\ cfg' = <<r, c, k, ps>>
         /\ IF Game_new(r, c, k, ps) = "Ok"
            THEN /\ pc' = "status"
                 /\ board' = Board_new(r, c)
                 /\ tokens_to_win' = k
                 /\ players' = ps
                 /\ current_turn' = 0
                 /\ ret' = "Ok"
            ELSE /\ pc' = "panicked"
                 /\ ret' = Game_new(r, c, k, ps)
                 /\ UNCHANGED <<board, tokens_to_win, players, current_turn>>
    /\ UNCHANGED <<st, input, last, placed, call, arg_line, next_token, elsewhere>>

\* Game::start, top of the loop: display, then match self.status()
EvalStatus ==
    /\ pc = "status"
    /\ LET s == status(board, tokens_to_win)
       IN  /\ st' = s
           /\ pc' = IF s[1] = "Ongoing" THEN "prompt" ELSE "done"
    /\ UNCHANGED <<board, tokens_to_win, players, current_turn, cfg, input,
                   last, placed, call, ret, arg_line, next_token, elsewhere>>

\* a rejected line that nevertheless passes the turn to the next player
RejectInputAdvancesTurn ==
    /\ pc = "prompt"
    /\ \E in \in Inputs :
         /\ ~ (in[1] = "int" /\ valid_move(board, in[2]))
         /\ input' = in
    /\ current_turn' = next_turn(current_turn, players)
    /\ UNCHANGED <<pc, board, tokens_to_win, players, st, cfg,
                   last, placed, call, ret, arg_line, next_token, elsewhere>>

\* get_valid_input: a line that is rejected; the loop prompts again
RejectInput ==
    /\ pc = "prompt"
    /\ \E in \in Inputs :
         /\ ~ (in[1] = "int" /\ valid_move(board, in[2]))
         /\ input' = in
    /\ UNCHANGED <<pc, board, tokens_to_win, players, current_turn, st, cfg,
                   last, placed, call, ret, arg_line, next_token, elsewhere>>

\* get_valid_input returns a column; place_token, then next_turn
AcceptInput ==
    /\ pc = "prompt"
    /\ \E in \in Inputs :
         /\ in[1] = "int" /\ valid_move(board, in[2])
         /\ input' = in
         /\ board' = place_token(board, in[2], players[current_turn + 1])
         /\ last' = <<TargetRow(board, in[2]), in[2], players[current_turn + 1]>>
    /\ current_turn' = next_turn(current_turn, players)
    /\ placed' = placed + 1
    /\ pc' = "status"
    /\ UNCHANGED <<tokens_to_win, players, st, cfg, call, ret, arg_line, next_token, elsewhere>>

Next == New \/ EvalStatus \/ RejectInput \/ AcceptInput

Spec == Init /\ [][Next]_vars

\* The turn loop alone, started on a game as Game::new returns it: the
\* players hold the tokens 1 .. n in the order of their creation
InitLoop ==
    /\ pc = "status"
    /\ \E r \in 1 .. MaxRows, c \in 1 .. MaxCols, k \in 2 .. MaxRows,
          n \in 2 .. MaxPlayers :
         /\ Game_new(r, c, k, [i \in 1 .. n |-> i]) = "Ok"
         /\ cfg = <<r, c, k, [i \in 1 .. n |-> i]>>
         /\ board = Board_new(r, c)
         /\ tokens_to_win = k
         /\ players = [i \in 1 .. n |-> i]
    /\ current_turn = 0
    /\ st = NoValue
    /\ input = NoValue
    /\ last = NoValue
    /\ placed = 0
    /\ call = NoValue
    /\ ret = "Ok"
    /\ arg_line = <<>>
    /\ next_token = LetterA
    /\ main_game = NoValue /\ threads = NoValue /\ token_lock = NoValue

NextLoop == EvalStatus \/ RejectInput \/ AcceptInput

\* The status evaluation is a step of the program, and every prompt
\* eventually receives a valid column.
SpecLoop ==
    /\ InitLoop
    /\ [][NextLoop]_vars
    /\ WF_vars(EvalStatus)
    /\ WF_vars(AcceptInput)

----------------------------------------------------------------------------
(* The functions of Board and Game applied to arbitrary boards and lines *)

MaxLine == 5

\* every grid of r rows and c columns over empty cells and PureTokens
Grids(r, c) == [0 .. r - 1 -> [0 .. c - 1 -> {None} \cup PureTokens]]

PureBoards == UNION {Grids(r, c) : r \in 1 .. MaxRows, c \in 1 .. MaxCols}

\* the r x c board on which every cell holds a different player, numbered
\* in row-major order from 1 (0 being the empty cell)
NumberedBoard(r, c) == [i \in 0 .. r - 1 |-> [j \in 0 .. c - 1 |-> i * c + j + 1]]

NumberedBoards == {NumberedBoard(r, c) : r \in 1 .. MaxRows, c \in 1 .. MaxCols}

PureLines == SeqsUpTo({None} \cup PureTokens, MaxLine)

\* a numbered board, an arbitrary line or an arbitrary board, on which one
\* call is made
InitPure ==
    /\ \/ pc = "grid" /\ board \in NumberedBoards /\ arg_line = <<>>
       \/ pc = "line" /\ board = <<>> /\ arg_line \in PureLines
       \/ pc = "board" /\ board \in PureBoards /\ arg_line = <<>>
    /\ tokens_to_win = 0
    /\ players = <<>>
    /\ current_turn = 0
    /\ st = NoValue
    /\ cfg = NoValue
    /\ input = NoValue
    /\ last = NoValue
    /\ placed = 0
    /\ call = NoValue
    /\ ret = NoValue
    /\ next_token = LetterA
    /\ main_game = NoValue /\ threads = NoValue /\ token_lock = NoValue

\* the call leaves everything but call, ret and pc as it is
Returned ==
    /\ pc' = "returned"
    /\ UNCHANGED <<board, tokens_to_win, players, current_turn, st, cfg,
                   input, last, placed, arg_line, next_token, elsewhere>>

\* board.place_token(col, player), on a column with or without an empty cell
CallPlaceToken ==
    /\ pc = "board"
    /\ \E col \in 0 .. NCols(board) - 1, player \in PureTokens :
         /\ call' = <<"place_token", col, player>>
         /\ ret' = place_token(board, col, player)
    /\ Returned

\* board.valid_move(col), col being any usize
CallValidMove ==
    /\ pc = "board"
    /\ \E col \in 0 .. MaxCols + 1 :
         /\ call' = <<"valid_move", col>>
         /\ ret' = valid_move(board, col)
    /\ Returned

\* board.is_board_full()
CallIsBoardFull ==
    /\ pc = "board"
    /\ call' = <<"is_board_full">>
    /\ ret' = is_board_full(board)
    /\ Returned

\* find_winner of a game with this board and tokens_to_win = k
CallFindWinner ==
    /\ pc = "board"
    /\ \E k \in 2 .. Max(MaxRows, MaxCols) + 1 :
         /\ call' = <<"find_winner", k>>
         /\ ret' = find_winner(board, k)
    /\ Returned

\* status of a game with this board and tokens_to_win = k
CallStatus ==
    /\ pc = "board"
    /\ \E k \in 2 .. Max(MaxRows, MaxCols) + 1 :
         /\ call' = <<"status", k>>
         /\ ret' = status(board, k)
    /\ Returned

\* Game::check_line(line, k)
CallCheckLine ==
    /\ pc = "line"
    /\ \E k \in 2 .. MaxLine + 1 :
         /\ call' = <<"check_line", k>>
         /\ ret' = check_line(arg_line, k)
    /\ Returned

\* board.get_diagonals_top_left_to_bottom_right() on a numbered board
CallDiagonalsTLBR ==
    /\ pc = "grid"
    /\ call' = <<"get_diagonals_top_left_to_bottom_right">>
    /\ ret' = get_diagonals_top_left_to_bottom_right(board)
    /\ Returned

\* board.get_diagonals_top_right_to_bottom_left() on a numbered board
CallDiagonalsTRBL ==
    /\ pc = "grid"
    /\ call' = <<"get_diagonals_top_right_to_bottom_left">>
    /\ ret' = get_diagonals_top_right_to_bottom_left(board)
    /\ Returned

NextPure ==
    \/ CallDiagonalsTLBR
    \/ CallDiagonalsTRBL
    \/ CallPlaceToken
    \/ CallValidMove
    \/ CallIsBoardFull
    \/ CallFindWinner
    \/ CallStatus
    \/ CallCheckLine

SpecPure == InitPure /\ [][NextPure]_vars

----------------------------------------------------------------------------
(* A board built by Board::new and driven through its API *)

InitBoard ==
    /\ pc = "api"
    /\ \E r \in 1 .. MaxRows, c \in 1 .. MaxCols :
         /\ board = Board_new(r, c)
         /\ cfg = <<r, c>>
    /\ tokens_to_win = 0
    /\ players = <<>>
    /\ current_turn = 0
    /\ st = NoValue
    /\ input = NoValue
    /\ last = NoValue
    /\ placed = 0
    /\ call = NoValue
    /\ ret = NoValue
    /\ arg_line = <<>>
    /\ next_token = LetterA
    /\ main_game = NoValue /\ threads = NoValue /\ token_lock = NoValue

\* place_token after valid_move(col) returned true, as get_valid_input does
BoardPlace ==
    /\ pc = "api"
    /\ \E col \in 0 .. MaxCols, player \in PureTokens :
         /\ valid_move(board, col)
         /\ board' = place_token(board, col, player)
         /\ last' = <<TargetRow(board, col), col, player>>
         /\ call' = <<"place_token", col, player>>
    /\ placed' = placed + 1
    /\ ret' = NoValue
    /\ UNCHANGED <<pc, tokens_to_win, players, current_turn, st, cfg, input,
                   arg_line, next_token, elsewhere>>

\* place_token on a column of the board that has no empty cell
BoardPlaceFull ==
    /\ pc = "api"
    /\ \E col \in 0 .. NCols(board) - 1, player \in PureTokens :
         /\ ~ valid_move(board, col)
         /\ board' = place_token(board, col, player)
         /\ last' = <<TargetRow(board, col), col, player>>
         /\ call' = <<"place_token_full", col, player>>
    /\ ret' = NoValue
    /\ UNCHANGED <<pc, tokens_to_win, players, current_turn, st, cfg, input,
                   placed, arg_line, next_token, elsewhere>>

\* is_board_full() on the board as it stands
BoardIsFull ==
    /\ pc = "api"
    /\ call' = <<"is_board_full">>
    /\ ret' = is_board_full(board)
    /\ UNCHANGED <<pc, board, tokens_to_win, players, current_turn, st, cfg,
                   input, last, placed, arg_line, next_token, elsewhere>>

NextBoard == BoardPlace \/ BoardPlaceFull \/ BoardIsFull

SpecBoard == InitBoard /\ [][NextBoard]_vars

----------------------------------------------------------------------------
(* Players created by Player::new, then handed to Game::new *)

MaxCreated == 28
BigSide == 8

\* names given to Player::new: empty or not
Names == {"", "p"}

\* board sides and run lengths given to Game::new
Sides == (0 .. MaxRows) \cup {BigSide}

InitPlayers ==
    /\ pc = "setup"
    /\ board = <<>>
    /\ tokens_to_win = 0
    /\ players = <<>>
    /\ current_turn = 0
    /\ st = NoValue
    /\ cfg = NoValue
    /\ input = NoValue
    /\ last = NoValue
    /\ placed = 0
    /\ call = NoValue
    /\ ret = NoValue
    /\ arg_line = <<>>
    /\ next_token = LetterA
    /\ main_game = NoValue /\ threads = NoValue /\ token_lock = NoValue

\* Player::new(name): panics on an empty name, else takes the counter's
\* value as token and advances the counter
PlayerNew ==
    /\ pc = "setup"
    /\ Len(players) < MaxCreated
    /\ \E name \in Names :
         /\ call' = <<"Player::new", name>>
         /\ IF name = ""
            THEN /\ pc' = "panicked"
                 /\ ret' = "NoName"
                 /\ UNCHANGED <<players, next_token>>
            ELSE /\ pc' = pc
                 /\ ret' = next_token
                 /\ players' = Append(players, next_token)
                 /\ next_token' = AdvanceToken(next_token)
    /\ UNCHANGED <<board, tokens_to_win, current_turn, st, cfg, input, last,
                   placed, arg_line, elsewhere>>

\* Game::new on the players created so far
BuildGame ==
    /\ pc = "setup"
    /\ \E r \in Sides, c \in Sides, k \in 0 .. MaxRows + 1 :
         /\ cfg' = <<r, c, k, players>>
         /\ call' = <<"Game::new">>
         /\ ret' = Game_new(r, c, k, players)
         /\ IF Game_new(r, c, k, players) = "Ok"
            THEN /\ pc' = "built"
                 /\ board' = Board_new(r, c)
                 /\ tokens_to_win' = k
            ELSE /\ pc' = "panicked"
                 /\ UNCHANGED <<board, tokens_to_win>>
    /\ UNCHANGED <<players, current_turn, st, input, last, placed, arg_line,
                   next_token, elsewhere>>

NextPlayers == PlayerNew \/ BuildGame

SpecPlayers == InitPlayers /\ [][NextPlayers]_vars

----------------------------------------------------------------------------
(* main.rs: the inline module `game`, which keeps the board as a plain      *)
(* Vec<BoardRow> inside Game and has its own copy of every function         *)

\* generate_board
Main_generate_board(row_count, col_count) ==
    [i \in 0 .. row_count - 1 |-> [j \in 0 .. col_count - 1 |-> None]]

\* Game::validate_players of main.rs
Main_validate_players(ps) ==
    \A i \in 1 .. Len(ps) : \A j \in 1 .. i - 1 : ps[j] # ps[i]

\* Game::new of main.rs: "Ok" or the panic raised; it checks the players only
Main_Game_new(row_count, col_count, k, ps) ==
    IF Len(ps) < 2 THEN "FewPlayers"
    ELSE IF ~ Main_validate_players(ps) THEN "DuplicateToken"
    ELSE "Ok"

\* Game::next_turn of main.rs
Main_next_turn(turn, ps) == (turn + 1) % Len(ps)

\* Game::is_board_full of main.rs
Main_is_board_full(b) ==
    ~ \E i \in DOMAIN b : \E j \in DOMAIN b[i] : b[i][j] = None

\* Game::valid_move of main.rs
Main_valid_move(b, col) ==
    IF col >= Cardinality(DOMAIN b[0]) THEN FALSE
    ELSE \E i \in DOMAIN b : b[i][col] = None

\* the loop of place_token of main.rs
RECURSIVE Main_PlaceScan(_, _, _, _)
Main_PlaceScan(b, col, i, target_row) ==
    IF i >= Cardinality(DOMAIN b) THEN target_row
    ELSE Main_PlaceScan(b, col, i + 1,
                        IF b[i][col] = None THEN i ELSE target_row)

\* Game::place_token of main.rs
Main_place_token(b, col, player) ==
    [b EXCEPT ![Main_PlaceScan(b, col, 0, 0)][col] = player]

\* one diagonal of main.rs's get_diagonals_top_left_to_bottom_right
RECURSIVE Main_DiagTLBR(_, _, _)
Main_DiagTLBR(b, d, i) ==
    IF i >= Cardinality(DOMAIN b) THEN <<>>
    ELSE LET j == d - i
         IN  (IF j >= 0 /\ j < Cardinality(DOMAIN b[0])
              THEN <<b[i][j]>> ELSE <<>>)
             \o Main_DiagTLBR(b, d, i + 1)

\* one diagonal of main.rs's get_diagonals_top_right_to_bottom_left
RECURSIVE Main_DiagTRBL(_, _, _)
Main_DiagTRBL(b, d, i) ==
    IF i >= Cardinality(DOMAIN b) THEN <<>>
    ELSE LET j == (Cardinality(DOMAIN b[0]) - 1) - (d - i)
         IN  (IF j >= 0 /\ j < Cardinality(DOMAIN b[0])
              THEN <<b[i][j]>> ELSE <<>>)
             \o Main_DiagTRBL(b, d, i + 1)

RECURSIVE Main_DiagonalsTLBRFrom(_, _)
Main_DiagonalsTLBRFrom(b, d) ==
    IF d >= Cardinality(DOMAIN b) + Cardinality(DOMAIN b[0]) - 1 THEN <<>>
    ELSE LET diagonal == Main_DiagTLBR(b, d, 0)
         IN  (IF diagonal # <<>> THEN <<diagonal>> ELSE <<>>)
             \o Main_DiagonalsTLBRFrom(b, d + 1)

RECURSIVE Main_DiagonalsTRBLFrom(_, _)
Main_DiagonalsTRBLFrom(b, d) ==
    IF d >= Cardinality(DOMAIN b) + Cardinality(DOMAIN b[0]) - 1 THEN <<>>
    ELSE LET diagonal == Main_DiagTRBL(b, d, 0)
         IN  (IF diagonal # <<>> THEN <<diagonal>> ELSE <<>>)
             \o Main_DiagonalsTRBLFrom(b, d + 1)

\* the loop of check_line of main.rs
RECURSIVE Main_CheckScan(_, _, _, _, _)
Main_CheckScan(line, k, i, count, last_player) ==
    IF i > Len(line) THEN None
    ELSE IF line[i] # None
         THEN IF line[i] = last_player
              THEN IF count + 1 = k THEN line[i]
                   ELSE Main_CheckScan(line, k, i + 1, count + 1, last_player)
              ELSE Main_CheckScan(line, k, i + 1, 1, line[i])
         ELSE Main_CheckScan(line, k, i + 1, 0, None)

\* Game::check_line of main.rs
Main_check_line(line, k) == Main_CheckScan(line, k, 1, 0, None)

\* the lines main.rs's find_winner scans: rows, columns, the diagonals from
\* the top left, the diagonals from the top right
Main_ScanLines(b) ==
    [i \in 1 .. Cardinality(DOMAIN b) |->
        [j \in 1 .. Cardinality(DOMAIN b[0]) |-> b[i - 1][j - 1]]]
    \o [j \in 1 .. Cardinality(DOMAIN b[0]) |->
        [i \in 1 .. Cardinality(DOMAIN b) |-> b[i - 1][j - 1]]]
    \o Main_DiagonalsTLBRFrom(b, 0)
    \o Main_DiagonalsTRBLFrom(b, 0)

RECURSIVE Main_FirstWinner(_, _, _)
Main_FirstWinner(lines, k, n) ==
    IF n > Len(lines) THEN None
    ELSE LET winner == Main_check_line(lines[n], k)
         IN  IF winner # None THEN winner
             ELSE Main_FirstWinner(lines, k, n + 1)

\* Game::find_winner of main.rs
Main_find_winner(b, k) ==
    CHOOSE w \in {Main_FirstWinner(lines, k, 1) : lines \in {Main_ScanLines(b)}} :
        TRUE

\* status of main.rs looking for a winner before it tests for a full board
Main_status_win_first(b, k) ==
    LET winner == Main_find_winner(b, k)
    IN  IF winner # None THEN <<"Win", winner>>
        ELSE IF Main_is_board_full(b) THEN <<"Draw">> ELSE <<"Ongoing">>

\* Game::status of main.rs
Main_status(b, k) ==
    IF Main_is_board_full(b) THEN <<"Draw">>
    ELSE LET winner == Main_find_winner(b, k)
         IN  IF winner # None THEN <<"Win", winner>> ELSE <<"Ongoing">>

----------------------------------------------------------------------------
(* The two programs side by side: the same configuration is given to both   *)
(* constructors and every line of input is read by both turn loops          *)

InitMain ==
    /\ pc = "status"
    /\ \E r \in 1 .. MaxRows, c \in 1 .. MaxCols, k \in 2 .. MaxRows,
          n \in 2 .. MaxPlayers :
         /\ Game_new(r, c, k, [i \in 1 .. n |-> i]) = "Ok"
         /\ cfg = <<r, c, k, [i \in 1 .. n |-> i]>>
         /\ board = Board_new(r, c)
         /\ tokens_to_win = k
         /\ players = [i \in 1 .. n |-> i]
         /\ main_game =
              LET made == Main_Game_new(r, c, k, [i \in 1 .. n |-> i])
              IN  [ret |-> made,
                   pc |-> IF made = "Ok" THEN "status" ELSE "panicked",
                   board |-> Main_generate_board(r, c),
                   tokens_to_win |-> k,
                   players |-> [i \in 1 .. n |-> i],
                   current_turn |-> 0,
                   st |-> NoValue,
                   placed |-> 0]
    /\ current_turn = 0
    /\ st = NoValue
    /\ input = NoValue
    /\ last = NoValue
    /\ placed = 0
    /\ call = NoValue
    /\ ret = "Ok"
    /\ arg_line = <<>>
    /\ next_token = LetterA
    /\ threads = NoValue
    /\ token_lock = NoValue

\* both loops are at their top: each evaluates its own status()
PairStatus ==
    /\ pc = "status"
    /\ main_game.pc = "status"
    /\ LET s == status(board, tokens_to_win)
       IN  /\ st' = s
           /\ pc' = IF s[1] = "Ongoing" THEN "prompt" ELSE "done"
    /\ LET s == Main_status(main_game.board, main_game.tokens_to_win)
       IN  main_game' = [main_game EXCEPT
                            !.st = s,
                            !.pc = IF s[1] = "Ongoing" THEN "prompt" ELSE "done"]
    /\ UNCHANGED <<board, tokens_to_win, players, current_turn, cfg, input,
                   last, placed, call, ret, arg_line, next_token, threads,
                   token_lock>>

\* both loops are in get_valid_input and read the same line: each one
\* rejects it and prompts again, or places the token and passes the turn
PairInput ==
    /\ pc = "prompt"
    /\ main_game.pc = "prompt"
    /\ \E in \in Inputs :
         /\ input' = in
         /\ IF in[1] = "int" /\ valid_move(board, in[2])
            THEN /\ board' = place_token(board, in[2], players[current_turn + 1])
                 /\ last' = <<TargetRow(board, in[2]), in[2],
                              players[current_turn + 1]>>
                 /\ current_turn' = next_turn(current_turn, players)
                 /\ placed' = placed + 1
                 /\ pc' = "status"
            ELSE UNCHANGED <<board, last, current_turn, placed, pc>>
         /\ IF in[1] = "int" /\ Main_valid_move(main_game.board, in[2])
            THEN main_game' = [main_game EXCEPT
                     !.board = Main_place_token(main_game.board, in[2],
                                   main_game.players[main_game.current_turn + 1]),
                     !.current_turn = Main_next_turn(main_game.current_turn,
                                                     main_game.players),
                     !.placed = main_game.placed + 1,
                     !.pc = "status"]
            ELSE UNCHANGED main_game
    /\ UNCHANGED <<tokens_to_win, players, st, cfg, call, ret, arg_line,
                   next_token, threads, token_lock>>

NextMain == PairStatus \/ PairInput

SpecMain == InitMain /\ [][NextMain]_vars

----------------------------------------------------------------------------
(* Player::new called from several threads of one process                   *)

MaxThreads == 3

Threads == 1 .. MaxThreads

\* the Mutex of NEXT_TOKEN is not held
NoThread == 0

\* lock() handing out the guard although another thread holds it
CanLockAlways(holder) == holder = holder

\* NEXT_TOKEN.lock(): the calling thread gets the guard only when no thread
\* holds it, and blocks otherwise
CanLock(holder) == holder = NoThread

\* the calls of Player::new begun and not yet returned or panicked
InFlight == {t \in Threads : threads[t].pc \in {"waiting", "locked", "read", "advanced"}}

InitThreads ==
    /\ pc = "threads"
    /\ threads = [t \in Threads |-> [pc |-> "idle", name |-> "", token |-> None]]
    /\ token_lock = NoThread
    /\ next_token = LetterA
    /\ players = <<>>
    /\ board = <<>>
    /\ tokens_to_win = 0
    /\ current_turn = 0
    /\ st = NoValue
    /\ cfg = NoValue
    /\ input = NoValue
    /\ last = NoValue
    /\ placed = 0
    /\ call = NoValue
    /\ ret = NoValue
    /\ arg_line = <<>>
    /\ main_game = NoValue

\* what a step of a thread leaves alone
ThreadFrame ==
    UNCHANGED <<pc, board, tokens_to_win, current_turn, st, cfg, input, last,
                placed, call, ret, arg_line, main_game>>

\* a thread calls Player::new(name): an empty name panics, before the lock
\* is asked for
ThreadCall(t) ==
    /\ threads[t].pc = "idle"
    /\ Len(players) + Cardinality(InFlight) < MaxCreated
    /\ \E name \in Names :
         threads' = [threads EXCEPT ![t] =
                        [pc |-> IF name = "" THEN "panicked" ELSE "waiting",
                         name |-> name,
                         token |-> None]]
    /\ UNCHANGED <<players, next_token, token_lock>>
    /\ ThreadFrame

\* let mut token_lock = NEXT_TOKEN.lock().unwrap()
ThreadLock(t) ==
    /\ threads[t].pc = "waiting"
    /\ CanLock(token_lock)
    /\ token_lock' = t
    /\ threads' = [threads EXCEPT ![t].pc = "locked"]
    /\ UNCHANGED <<players, next_token>>
    /\ ThreadFrame

\* let token = *token_lock
ThreadRead(t) ==
    /\ threads[t].pc = "locked"
    /\ threads' = [threads EXCEPT ![t].pc = "read", ![t].token = next_token]
    /\ UNCHANGED <<players, next_token, token_lock>>
    /\ ThreadFrame

\* if *token_lock < 'z' { *token_lock = (token as u8 + 1) as char }
ThreadAdvance(t) ==
    /\ threads[t].pc = "read"
    /\ next_token' = IF next_token < LetterZ THEN threads[t].token + 1
                     ELSE next_token
    /\ threads' = [threads EXCEPT ![t].pc = "advanced"]
    /\ UNCHANGED <<players, token_lock>>
    /\ ThreadFrame

\* Self { name, token } is returned and the guard is dropped
ThreadReturn(t) ==
    /\ threads[t].pc = "advanced"
    /\ players' = Append(players, threads[t].token)
    /\ token_lock' = IF token_lock = t THEN NoThread ELSE token_lock
    /\ threads' = [threads EXCEPT ![t] =
                       [pc |-> "idle", name |-> "", token |-> None]]
    /\ UNCHANGED next_token
    /\ ThreadFrame

NextThreads ==
    \E t \in Threads :
        \/ ThreadCall(t)
        \/ ThreadLock(t)
        \/ ThreadRead(t)
        \/ ThreadAdvance(t)
        \/ ThreadReturn(t)

SpecThreads == InitThreads /\ [][NextThreads]_vars

----------------------------------------------------------------------------
(* Vocabulary of the properties *)

\* the positions of the program inside a constructed game
InGame == pc \in {"status", "prompt", "done"}

\* st holds the status of the current board (it is stale only between a
\* placement and the next evaluation, at pc = "status")
Evaluated == pc \in {"prompt", "done"}

\* the four directions of a line: right, down, down-right, down-left
Directions == {<<0, 1>>, <<1, 0>>, <<1, 1>>, <<1, -1>>}

\* player p owns k contiguous cells starting at (i, j) in direction d
RunAt(b, p, k, i, j, d) ==
    \A n \in 0 .. k - 1 :
        /\ i + n * d[1] \in DOMAIN b
        /\ j + n * d[2] \in DOMAIN b[0]
        /\ b[i + n * d[1]][j + n * d[2]] = p

\* player p owns a run of k cells in some row, column or diagonal
HasRun(b, p, k) ==
    \E i \in DOMAIN b : \E j \in DOMAIN b[0] : \E d \in Directions :
        RunAt(b, p, k, i, j, d)

\* some player owns a run of k cells
AnyRun(b, k) == \E p \in Tokens : HasRun(b, p, k)

\* the cells of the board
Positions(b) == {<<i, j>> : i \in DOMAIN b, j \in DOMAIN b[0]}

\* every cell is occupied
AllOccupied(b) == \A x \in Positions(b) : b[x[1]][x[2]] # None

\* number of tokens on the board
TokenCount(b) == Cardinality({x \in Positions(b) : b[x[1]][x[2]] # None})

----------------------------------------------------------------------------
(* Properties of the turn loop *)

\* C3: when the board is full and a winning line exists, the status
\* reported is Win for the owner of a line, not Draw.
C3_WinCheckedBeforeDraw ==
    (Evaluated /\ AllOccupied(board) /\ AnyRun(board, tokens_to_win))
        => (st[1] = "Win" /\ HasRun(board, st[2], tokens_to_win))

\* C4: whenever a placement completes a run of tokens_to_win cells for the
\* player who just moved, the next status evaluation reports Win for that
\* player and the loop stops before the next prompt.
C4_WinReportedAtOnce ==
    (Evaluated /\ placed > 0 /\ HasRun(board, last[3], tokens_to_win))
        => (st = <<"Win", last[3]>> /\ pc = "done")

\* C6: the turn cursor starts at 0 and advances by one modulo the number of
\* players at every accepted placement: it stays inside the player list,
\* equals the number of tokens on the board modulo the number of players,
\* and the m-th placement (0-based) is made with players[m mod n].
C6_TurnCursorCycles ==
    InGame =>
        /\ current_turn \in 0 .. Len(players) - 1
        /\ TokenCount(board) = placed
        /\ current_turn = TokenCount(board) % Len(players)
        /\ placed > 0 => last[3] = players[((placed - 1) % Len(players)) + 1]

\* C6 witness: a three-player game whose cursor has wrapped around to 0
C6_Witness ==
    InGame /\ Len(players) = 3 /\ placed = 3 /\ current_turn = 0

\* what Game::new requires of its arguments
ConfigOk(r, c, k, ps) ==
    /\ Len(ps) >= 2
    /\ Cardinality({ps[i] : i \in 1 .. Len(ps)}) = Len(ps)
    /\ r >= 1 /\ c >= 1
    /\ k >= 2
    /\ k <= r /\ k <= c
    /\ Len(ps) * k <= r * c

\* C10: Game::new panics, before any turn executes, exactly when one of the
\* configuration requirements is violated; otherwise it returns a game with
\* an all-empty rows x cols board and current_turn = 0.
C10_NewValidates ==
    pc # "new" =>
        /\ (pc = "panicked") <=> ~ ConfigOk(cfg[1], cfg[2], cfg[3], cfg[4])
        /\ pc = "panicked" => (placed = 0 /\ st = NoValue /\ board = <<>>)
        /\ (pc = "status" /\ placed = 0) =>
               /\ DOMAIN board = 0 .. cfg[1] - 1
               /\ \A i \in DOMAIN board :
                      /\ DOMAIN board[i] = 0 .. cfg[2] - 1
                      /\ \A j \in DOMAIN board[i] : board[i][j] = None
               /\ current_turn = 0
               /\ tokens_to_win = cfg[3] /\ players = cfg[4]

\* C10 witness: two players sharing a token, everything else being valid
C10_Witness ==
    /\ pc = "panicked"
    /\ Len(cfg[4]) = 2 /\ cfg[4][1] = cfg[4][2]
    /\ cfg[1] = 3 /\ cfg[2] = 3 /\ cfg[3] = 3

----------------------------------------------------------------------------
(* Properties of the functions of Board and Game *)

\* the rows of column col whose cell is empty
ColumnEmpties(b, col) == {i \in DOMAIN b : b[i][col] = None}

\* the lowest empty row of column col (row 0 is the top)
LowestEmptyRow(b, col) ==
    CHOOSE i \in ColumnEmpties(b, col) : \A m \in ColumnEmpties(b, col) : m <= i

\* column col holds exactly k tokens, stacked from the bottom
Stacked(b, col, k) ==
    \A i \in DOMAIN b : (b[i][col] # None) <=> (i >= Cardinality(DOMAIN b) - k)

\* C1: place_token on a column with an empty cell writes the player into the
\* lowest empty row of that column and changes no other cell; on a column
\* holding k tokens stacked from the bottom that row is rows - 1 - k.
C1_PlaceLowestEmptyRow ==
    (call[1] = "place_token" /\ ColumnEmpties(board, call[2]) # {}) =>
        LET col == call[2]
            r == LowestEmptyRow(board, col)
        IN  /\ DOMAIN ret = DOMAIN board
            /\ \A i \in DOMAIN board : DOMAIN ret[i] = DOMAIN board[i]
            /\ \A x \in Positions(board) :
                   ret[x[1]][x[2]] =
                       IF x = <<r, col>> THEN call[3] ELSE board[x[1]][x[2]]
            /\ \A k \in 0 .. Cardinality(DOMAIN board) - 1 :
                   Stacked(board, col, k) =>
                       ret[Cardinality(DOMAIN board) - 1 - k][col] = call[3]

\* C1 witness: a token placed on a column of three rows holding one token
C1_Witness ==
    /\ call[1] = "place_token"
    /\ Cardinality(DOMAIN board) = 3
    /\ Stacked(board, call[2], 1)
    /\ board[1][call[2]] = None
    /\ ret[1][call[2]] = call[3]

\* C2: find_winner returns a player exactly when some row, column or
\* diagonal (either direction) holds tokens_to_win contiguous cells of one
\* player, and the player returned owns such a run.
C2_FindWinnerIffRun ==
    call[1] = "find_winner" =>
        /\ (ret # None) <=> AnyRun(board, call[2])
        /\ ret # None => HasRun(board, ret, call[2])

\* C2 witness: the only run of three is on a diagonal running down-left
C2_Witness ==
    /\ call = <<"find_winner", 3>>
    /\ ret = 2
    /\ RunAt(board, 2, 3, 0, 2, <<1, -1>>)
    /\ \A p \in Tokens : \A i \in DOMAIN board : \A j \in DOMAIN board[0] :
           \A d \in Directions \ {<<1, -1>>} : ~ RunAt(board, p, 3, i, j, d)

\* C5: status reports Draw whenever every cell is occupied and no player
\* owns a run of tokens_to_win cells, and never while a cell is empty.
C5_DrawWhenFullNoLine ==
    call[1] = "status" =>
        /\ (AllOccupied(board) /\ ~ AnyRun(board, call[2])) => ret = <<"Draw">>
        /\ ret = <<"Draw">> => AllOccupied(board)

\* C5 witness: a full 3x3 board without a run of three, reported as Draw
C5_Witness ==
    /\ call = <<"status", 3>>
    /\ Cardinality(Positions(board)) = 9
    /\ AllOccupied(board)
    /\ ~ AnyRun(board, 3)
    /\ ret = <<"Draw">>

\* C7: valid_move(col) is true exactly when col is a column of the board
\* and that column has an empty cell; it is false for col >= cols and for a
\* column without an empty cell.
C7_ValidMove ==
    call[1] = "valid_move" =>
        ret = (call[2] \in DOMAIN board[0] /\ ColumnEmpties(board, call[2]) # {})

\* C7 witness: a full column of a board that still has an empty cell
C7_Witness ==
    /\ call[1] = "valid_move"
    /\ call[2] \in DOMAIN board[0]
    /\ ColumnEmpties(board, call[2]) = {}
    /\ ~ AllOccupied(board)
    /\ ret = FALSE

\* a run of k cells of one player ends at index e of the line
RunEndsAt(l, k, e) ==
    /\ e >= k
    /\ l[e] # None
    /\ \A n \in (e - k + 1) .. e : l[n] = l[e]

RunEnds(l, k) == {e \in 1 .. Len(l) : RunEndsAt(l, k, e)}

\* C9: check_line returns a player exactly when the line holds tokens_to_win
\* consecutive cells of one player, and the player is the owner of the
\* first such run to complete in scan order; cells separated by an empty
\* cell or by another player's cell are never counted together.
C9_CheckLineFirstRun ==
    call[1] = "check_line" =>
        LET ends == RunEnds(arg_line, call[2])
        IN  IF ends = {} THEN ret = None
            ELSE ret = arg_line[CHOOSE e \in ends : \A m \in ends : e <= m]

\* C9 witness: two players own a run of two; the first to complete is
\* returned, the cells of player 1 around it not being added together
C9_Witness ==
    /\ call = <<"check_line", 2>>
    /\ arg_line = <<1, 2, 2, 1, 1>>
    /\ ret = 2

----------------------------------------------------------------------------
(* Properties of boards filled through the API *)

\* C8: is_board_full is true exactly when every cell is occupied; it is
\* true after rows * cols placements made into columns for which valid_move
\* was true, and false after fewer.
C8_FullAfterAllPlacements ==
    call[1] = "is_board_full" =>
        /\ ret = AllOccupied(board)
        /\ ret = (placed = Cardinality(Positions(board)))

\* C8 witness: a 3x3 board after nine placements
C8_Witness ==
    /\ call[1] = "is_board_full"
    /\ Cardinality(Positions(board)) = 9
    /\ placed = 9
    /\ ret = TRUE

----------------------------------------------------------------------------
(* Properties of the diagonal lists, on numbered boards *)

DiagonalCalls ==
    {"get_diagonals_top_left_to_bottom_right",
     "get_diagonals_top_right_to_bottom_left"}

\* the places <<n, m>> of a list of sequences: element m of sequence n
Places(ss) == UNION {{<<n, m>> : m \in 1 .. Len(ss[n])} : n \in 1 .. Len(ss)}

\* row and column of the cell numbered l on a numbered board
RowOf(b, l) == (l - 1) \div Cardinality(DOMAIN b[0])
ColOf(b, l) == (l - 1) % Cardinality(DOMAIN b[0])

\* C11: on an R x C board each diagonal function returns R + C - 1
\* sequences, none empty, and every cell of the grid appears in exactly one
\* place of the sequences of one direction.
C11_DiagonalsPartition ==
    call[1] \in DiagonalCalls =>
        /\ Len(ret) = Cardinality(DOMAIN board) + Cardinality(DOMAIN board[0]) - 1
        /\ \A n \in 1 .. Len(ret) : ret[n] # <<>>
        /\ Cardinality(Places(ret)) = Cardinality(Positions(board))
        /\ \A x \in Positions(board) :
               Cardinality({q \in Places(ret) :
                                ret[q[1]][q[2]] = board[x[1]][x[2]]}) = 1

\* C11 witness: the four diagonals of a 2x3 board
C11_Witness ==
    /\ call[1] = "get_diagonals_top_left_to_bottom_right"
    /\ board = NumberedBoard(2, 3)
    /\ Len(ret) = 4
    /\ Cardinality(Places(ret)) = 6

\* the offset of the diagonal through the cell numbered l
OffsetOf(b, fn, l) ==
    IF fn = "get_diagonals_top_left_to_bottom_right"
    THEN RowOf(b, l) + ColOf(b, l)
    ELSE RowOf(b, l) + (Cardinality(DOMAIN b[0]) - 1 - ColOf(b, l))

C17_DocExampleTLBR ==
    (call[1] = "get_diagonals_top_left_to_bottom_right"
     /\ board = NumberedBoard(3, 3)) =>
        [n \in 1 .. Len(ret) |-> [m \in 1 .. Len(ret[n]) |-> ret[n][m] - 1]]
            = <<<<0>>, <<3, 1>>, <<6, 4, 2>>, <<7, 5>>, <<8>>>>

----------------------------------------------------------------------------
(* Further properties of place_token and find_winner *)

\* C18: place_token on a column without an empty cell returns normally,
\* having overwritten the cell at row 0 of that column with the new player
\* and left every other cell unchanged.
C18_FullColumnOverwritesTop ==
    (call[1] = "place_token" /\ ColumnEmpties(board, call[2]) = {}) =>
        /\ DOMAIN ret = DOMAIN board
        /\ \A i \in DOMAIN board : DOMAIN ret[i] = DOMAIN board[i]
        /\ \A x \in Positions(board) :
               ret[x[1]][x[2]] =
                   IF x = <<0, call[2]>> THEN call[3] ELSE board[x[1]][x[2]]

\* C18 witness: the top token of a full column of three replaced by the
\* other player's
C18_Witness ==
    /\ call[1] = "place_token"
    /\ Cardinality(DOMAIN board) = 3
    /\ ColumnEmpties(board, call[2]) = {}
    /\ board[0][call[2]] = 1
    /\ call[3] = 2
    /\ ret[0][call[2]] = 2
    /\ ret[2][call[2]] = board[2][call[2]]

\* the lines of the board in the order the claim gives: rows from row 0
\* downward, columns from column 0 rightward, then the two diagonal lists
LinesInOrder(b) ==
    [i \in 1 .. Cardinality(DOMAIN b) |->
        [j \in 1 .. Cardinality(DOMAIN b[0]) |-> b[i - 1][j - 1]]]
    \o [j \in 1 .. Cardinality(DOMAIN b[0]) |->
        [i \in 1 .. Cardinality(DOMAIN b) |-> b[i - 1][j - 1]]]
    \o get_diagonals_top_left_to_bottom_right(b)
    \o get_diagonals_top_right_to_bottom_left(b)

\* C19: find_winner returns the owner of the first line, in the fixed scan
\* order, that holds a winning run (and None when no line does).
C19_FirstLineInScanOrder ==
    call[1] = "find_winner" =>
        LET lines == LinesInOrder(board)
            sat == {n \in 1 .. Len(lines) : RunEnds(lines[n], call[2]) # {}}
        IN  IF sat = {} THEN ret = None
            ELSE LET n == CHOOSE a \in sat : \A c \in sat : a <= c
                     ends == RunEnds(lines[n], call[2])
                 IN  ret = lines[n][CHOOSE e \in ends : \A m \in ends : e <= m]

\* C19 witness: player 1 owns a run in column 0 starting at the top row,
\* player 2 a run in the bottom row; rows are scanned first, so 2 is returned
C19_Witness ==
    /\ call = <<"find_winner", 2>>
    /\ Cardinality(Positions(board)) = 9
    /\ RunAt(board, 1, 2, 0, 0, <<1, 0>>)
    /\ RunAt(board, 2, 2, 2, 1, <<0, 1>>)
    /\ ret = 2

----------------------------------------------------------------------------
(* Further properties of the turn loop *)

\* the cells that are empty before a step and occupied after it
NewlyOccupied ==
    {x \in Positions(board) :
        board[x[1]][x[2]] = None /\ board'[x[1]][x[2]] # None}

\* C12: in the turn loop an occupied cell keeps its owner for ever, and each
\* accepted placement turns exactly one empty cell into an occupied one.
C12_TokensNeverChange ==
    [][InGame =>
        /\ \A x \in Positions(board) :
               board[x[1]][x[2]] # None =>
                   board'[x[1]][x[2]] = board[x[1]][x[2]]
        /\ (placed' # placed \/ board' # board) =>
               /\ placed' = placed + 1
               /\ Cardinality(NewlyOccupied) = 1
               /\ TokenCount(board') = TokenCount(board) + 1]_vars

\* C12 witness: a token lying on top of another one, which is still there
C12_Witness ==
    /\ InGame
    /\ placed >= 2
    /\ last[1] + 1 \in DOMAIN board
    /\ board[last[1] + 1][last[2]] # None
    /\ board[last[1] + 1][last[2]] # last[3]

\* the line read names a column of the board that has an empty cell
ColumnOpen(b, in) ==
    /\ in[1] = "int"
    /\ in[2] \in DOMAIN b[0]
    /\ ColumnEmpties(b, in[2]) # {}

\* C13: a line that is no non-negative integer, or names a column out of
\* range or a full column, changes nothing: same board, same current_turn,
\* the same player is prompted again; and a placement is only ever made into
\* a column that was in range and had an empty cell.
C13_RejectedInputChangesNothing ==
    [][pc = "prompt" =>
        /\ ~ ColumnOpen(board, input') =>
               /\ pc' = "prompt"
               /\ UNCHANGED <<board, current_turn, placed, last, st, players,
                              tokens_to_win>>
        /\ (placed' # placed \/ board' # board) =>
               /\ ColumnOpen(board, input')
               /\ last'[2] = input'[2]]_vars

\* C13 witness: a full column was entered and refused; the prompt stands
C13_Witness ==
    /\ pc = "prompt"
    /\ input[1] = "int"
    /\ input[2] \in DOMAIN board[0]
    /\ ColumnEmpties(board, input[2]) = {}
    /\ last[2] # input[2]

\* C20: when every prompt eventually receives a valid column the loop
\* terminates, with status Draw or Win, after at most rows * cols accepted
\* placements.
C20_LoopTerminates ==
    /\ [](InGame => placed <= Cardinality(Positions(board)))
    /\ [](pc = "done" => st[1] \in {"Draw", "Win"})
    /\ <>(pc = "done")

\* C20 witness: a game that ended with the last cell, as a draw
C20_Witness ==
    /\ pc = "done"
    /\ placed = Cardinality(Positions(board))
    /\ placed = 9
    /\ st = <<"Draw">>
    /\ ~ AnyRun(board, tokens_to_win)

----------------------------------------------------------------------------
(* Properties of Board::new and of the token counter *)

\* C14: Board::new(r, c) yields r rows of c empty cells, and the board keeps
\* r rows of length c through any sequence of place_token calls.
C14_DimensionsFixed ==
    /\ DOMAIN board = 0 .. cfg[1] - 1
    /\ \A i \in DOMAIN board : DOMAIN board[i] = 0 .. cfg[2] - 1
    /\ last = NoValue =>
           /\ \A x \in Positions(board) : board[x[1]][x[2]] = None
           /\ Cardinality({x \in Positions(board) : board[x[1]][x[2]] = None})
                  = cfg[1] * cfg[2]

\* C14 witness: a 2x3 board after six placements and an overwrite
C14_Witness ==
    /\ cfg = <<2, 3>>
    /\ placed = 6
    /\ call[1] = "place_token_full"

\* C15: the i-th player created receives the i-th lowercase letter for
\* i <= 26 and 'z' afterwards; a game built from more than 26 such players
\* fails the duplicate-token validation, one built from 2..26 has pairwise
\* distinct tokens.
C15_TokensSequentialThenZ ==
    /\ \A i \in 1 .. Len(players) :
           players[i] = IF i <= 26 THEN LetterA + (i - 1) ELSE LetterZ
    /\ call[1] = "Game::new" =>
           /\ Len(players) > 26 => ret = "DuplicateToken"
           /\ Len(players) \in 2 .. 26 =>
                  /\ ret # "DuplicateToken"
                  /\ Cardinality({players[i] : i \in 1 .. Len(players)})
                         = Len(players)

\* C15 witness: 27 players on a board large enough for them
C15_Witness ==
    /\ call[1] = "Game::new"
    /\ Len(players) = 27
    /\ players[26] = LetterZ /\ players[27] = LetterZ
    /\ cfg[1] = BigSide /\ cfg[2] = BigSide /\ cfg[3] = 2
    /\ ret = "DuplicateToken"

----------------------------------------------------------------------------
(* Shape of the boards of the turn loop *)

\* no empty cell lies below an occupied cell of column col
Gravity(b, col) ==
    \A i \in DOMAIN b : \A m \in DOMAIN b :
        (i < m /\ b[i][col] # None) => b[m][col] # None

\* C21: in every state of the turn loop each column obeys gravity: its
\* occupied cells form one block that ends at the bottom row.
C21_ColumnsObeyGravity ==
    InGame =>
        \A col \in DOMAIN board[0] :
            /\ Gravity(board, col)
            /\ Stacked(board, col,
                       Cardinality(DOMAIN board) -
                           Cardinality(ColumnEmpties(board, col)))

\* C21 witness: a column of three rows holding two tokens under an empty cell
C21_Witness ==
    /\ InGame
    /\ Cardinality(DOMAIN board) = 3
    /\ \E col \in DOMAIN board[0] :
           /\ board[0][col] = None
           /\ board[1][col] # None
           /\ board[2][col] # None

\* the players owning a run of k cells
RunOwners(b, k) == {p \in Tokens : HasRun(b, p, k)}

\* the player who made the most recent placement:
\* players[(current_turn - 1) mod players.len()]
LastMover == players[((current_turn + Len(players) - 1) % Len(players)) + 1]

\* C22: in every state of the turn loop at most one player owns a run of
\* tokens_to_win cells, and a player returned by find_winner is the player
\* who made the most recent placement, whatever the order of the scan.
C22_OnlyLastMoverHasRun ==
    InGame =>
        \A winner \in {find_winner(board, tokens_to_win)} :
        \A owners \in {RunOwners(board, tokens_to_win)} :
        \A lines \in {ScanLinesColumnsFirst(board)} :
            /\ Cardinality(owners) <= 1
            /\ winner # None =>
                   /\ placed > 0
                   /\ winner = LastMover
                   /\ LastMover = last[3]
                   /\ owners = {LastMover}
            /\ FirstWinner(lines, tokens_to_win, 1) = winner

\* C22 witness: the third of three players completed a run, and the turn
\* cursor wrapped to 0
C22_Witness ==
    /\ InGame
    /\ Len(players) = 3
    /\ current_turn = 0
    /\ placed > 0
    /\ find_winner(board, tokens_to_win) = players[3]
    /\ HasRun(board, players[3], tokens_to_win)

----------------------------------------------------------------------------
(* main.rs against the game module *)

\* C23: for every configuration the module's Game::new accepts and every
\* sequence of input lines, the game of main.rs and the game of the module
\* accept and reject the same lines and have the same board, the same turn
\* cursor and the same status after every turn.
C23_MainEquivalentToModule ==
    /\ main_game.ret = "Ok"
    /\ main_game.pc = pc
    /\ main_game.board = board
    /\ main_game.current_turn = current_turn
    /\ main_game.st = st
    /\ main_game.placed = placed
    /\ main_game.players = players
    /\ main_game.tokens_to_win = tokens_to_win

\* C23 witness: both games ended with the same winner after at least three
\* placements
C23_Witness ==
    /\ pc = "done"
    /\ main_game.pc = "done"
    /\ main_game.st[1] = "Win"
    /\ main_game.st = st
    /\ main_game.placed >= 3
    /\ main_game.board = board

----------------------------------------------------------------------------
(* The token counter under concurrent calls *)

\* the tokens of the first 26 players created, in the order of their return
FirstCreated == SubSeq(players, 1, IF Len(players) < 26 THEN Len(players) ELSE 26)

\* C24: when Player::new is called concurrently, each call reads and
\* advances the counter under the lock: one thread at most is between lock()
\* and its return, no two of the first 26 players created receive the same
\* token, and no token between 'a' and the highest one assigned is skipped.
C24_CounterThreadSafe ==
    pc = "threads" =>
        /\ \A t \in Threads :
               threads[t].pc \in {"locked", "read", "advanced"} <=> token_lock = t
        /\ \A i \in 1 .. Len(FirstCreated) : \A j \in 1 .. Len(FirstCreated) :
               i # j => FirstCreated[i] # FirstCreated[j]
        /\ {FirstCreated[i] : i \in 1 .. Len(FirstCreated)}
               = LetterA .. (LetterA + Len(FirstCreated) - 1)
        /\ \A t \in Threads :
               (threads[t].pc \in {"read", "advanced"} /\ Len(players) < 26) =>
                   /\ threads[t].token = LetterA + Len(players)
                   /\ \A i \in 1 .. Len(players) : players[i] # threads[t].token

\* C24 witness: 26 players exist, created by calls of contending threads; a
\* thread holds the lock with the token it read while another one waits
C24_Witness ==
    /\ pc = "threads"
    /\ Len(players) = 26
    /\ players[26] = LetterZ
    /\ \E t \in Threads : \E u \in Threads :
           /\ t # u
           /\ token_lock = t
           /\ threads[t].pc = "advanced"
           /\ threads[t].token = LetterZ
           /\ threads[u].pc = "waiting"

====
